---- MODULE Spec2Model ----
(***************************************************************************)
(* The launcher backend of main.go: the CORS/logging wrapper around the    *)
(* news, version and download handlers, the access log, and the client-IP  *)
(* resolution.  The filesystem (client files, news file, log directory)    *)
(* and the clock are the environment.  Strings the code inspects character *)
(* by character (header values, addresses, digests) are sequences of       *)
(* one-character strings; other strings are TLA+ strings.                  *)
(***************************************************************************)
EXTENDS Integers, Sequences, FiniteSets, TLC

(* ------------------------------ bounds -------------------------------- *)

\* Requests the server handles concurrently in the server specification.
MaxReqs == 2
\* Requests in the download specification (the environment supplies the races).
MaxDlReqs == 1
\* Requests in the news specification.
MaxNewsReqs == 2
\* Longest client file, in bytes.
MaxFileLen == 2
\* Most entries in news.json.
MaxNews == 2
\* Last day of the clock (the first is 0).
MaxDay == 1
\* Longest X-Real-IP / X-Forwarded-For value, in characters.
MaxHdrLen == 3

Reqs == 1 .. MaxReqs
DlReqs == 1 .. MaxDlReqs
NewsReqs == 1 .. MaxNewsReqs
AllReqs == Reqs \cup DlReqs \cup NewsReqs
Days == 0 .. MaxDay
Bytes == {0, 1}

SeqsUpTo(S, n) == UNION {[1 .. k -> S] : k \in 0 .. n}

Contents == SeqsUpTo(Bytes, MaxFileLen)

IsPrefix(s, t) == Len(s) <= Len(t) /\ SubSeq(t, 1, Len(s)) = s

(* --------------------------- configuration ---------------------------- *)

config ==
    [ServerPort |-> "8080",
     LauncherClient |-> "launcher.exe",
     GameClient |-> "Loil.exe",
     LauncherVersion |-> "0.0.0",
     GameVersion |-> "0.0.0",
     ClientsDir |-> "clients"]

Kinds == {"launcher", "game"}

RouteNews == "/api/news"
RouteVersion == "/api/version"
RouteLauncher == "/api/download/launcher"
RouteGame == "/api/download/game"

DownloadRoutes == {RouteLauncher, RouteGame}
Routes == {RouteNews, RouteVersion} \cup DownloadRoutes
\* OPTIONS is the one method the code tells apart; GET stands for the others.
Methods == {"GET", "OPTIONS"}

\* The emoji handleWithCORS is called with, by name.
Emoji(route) ==
    CASE route = RouteNews -> "newspaper"
      [] route = RouteVersion -> "bookmark"
      [] OTHER -> "down-arrow"

KindOf(route) == IF route = RouteLauncher THEN "launcher" ELSE "game"

\* filepath.Join(config.ClientsDir, <configured name>)
FilePath(route) ==
    IF route = RouteLauncher
    THEN <<config.ClientsDir, config.LauncherClient>>
    ELSE <<config.ClientsDir, config.GameClient>>

\* filepath.Base
Base(path) == path[Len(path)]

(* ------------------------------ strings ------------------------------- *)

RECURSIVE TrimLeft(_)
TrimLeft(s) == IF s # <<>> /\ Head(s) = " " THEN TrimLeft(Tail(s)) ELSE s

RECURSIVE TrimRight(_)
TrimRight(s) ==
    IF s # <<>> /\ s[Len(s)] = " " THEN TrimRight(SubSeq(s, 1, Len(s) - 1)) ELSE s

\* strings.TrimSpace
TrimSpace(s) == TrimRight(TrimLeft(s))

\* Index of the first c in s, 0 when there is none (strings.IndexByte + 1).
IndexOf(s, c) ==
    IF \E i \in 1 .. Len(s) : s[i] = c
    THEN CHOOSE i \in 1 .. Len(s) : s[i] = c /\ \A j \in 1 .. i - 1 : s[j] # c
    ELSE 0

\* Index of the last c in s, 0 when there is none.
LastIndexOf(s, c) ==
    IF \E i \in 1 .. Len(s) : s[i] = c
    THEN CHOOSE i \in 1 .. Len(s) : s[i] = c /\ \A j \in i + 1 .. Len(s) : s[j] # c
    ELSE 0

\* strings.Split(s, sep)[0]
SplitFirst(s, sep) ==
    IF IndexOf(s, sep) = 0 THEN s ELSE SubSeq(s, 1, IndexOf(s, sep) - 1)

\* The host net.SplitHostPort returns ("" on any error).
SplitHostPortHost(hostport) ==
    LET i == LastIndexOf(hostport, ":")
        n == Len(hostport)
    IN  IF i = 0 THEN <<>>
        ELSE IF hostport[1] = "["
        THEN LET end == IndexOf(hostport, "]")
             IN  IF end = 0 \/ end + 1 # i THEN <<>>
                 ELSE IF IndexOf(SubSeq(hostport, 2, n), "[") # 0
                         \/ IndexOf(SubSeq(hostport, end + 1, n), "]") # 0
                 THEN <<>>
                 ELSE SubSeq(hostport, 2, end - 1)
        ELSE LET host == SubSeq(hostport, 1, i - 1)
             IN  IF IndexOf(host, ":") # 0 THEN <<>>
                 ELSE IF IndexOf(hostport, "[") # 0 \/ IndexOf(hostport, "]") # 0
                 THEN <<>>
                 ELSE host

\* getClientIP, with X-Real-IP consulted after X-Forwarded-For.
getClientIPForwardedFirst(h) ==
    LET fwd == IF h.xff # <<>> THEN TrimSpace(SplitFirst(h.xff, ",")) ELSE <<>>
        ip == IF fwd = <<>> THEN h.xRealIP ELSE fwd
    IN  IF ip = <<>> THEN SplitHostPortHost(h.remoteAddr) ELSE ip

getClientIP(h) ==
    LET real == h.xRealIP
        ip == IF real = <<>>
              THEN IF h.xff # <<>>
                   THEN TrimSpace(SplitFirst(h.xff, ","))
                   ELSE h.xff
              ELSE real
    IN  IF ip = <<>> THEN SplitHostPortHost(h.remoteAddr) ELSE ip

(* ------------------------------- digest ------------------------------- *)

HexDigits == <<"0", "1", "2", "3", "4", "5", "6", "7",
               "8", "9", "a", "b", "c", "d", "e", "f">>

\* hex.EncodeToString of one byte
HexByte(b) == <<HexDigits[(b \div 16) + 1], HexDigits[(b % 16) + 1]>>

\* A one-byte stand-in for md5: every byte of the input is folded in, in order.
RECURSIVE Md5Fold(_, _)
Md5Fold(h, data) ==
    IF data = <<>> THEN h
    ELSE Md5Fold((h * 31 + Head(data) + 7) % 256, Tail(data))

\* hex.EncodeToString(md5 of data): never empty.
Digest(data) == HexByte(Md5Fold(1, data))

(* ------------------------------- state -------------------------------- *)

VARIABLES
    file,       \* client files by kind: [exists, data]
    newsFile,   \* news/news.json: [state, items]
    logs,       \* logs/access_<day>.log by day: the lines written
    today,      \* the clock's day
    req,        \* per request: position and locals of its handler
    resp,       \* per request: the response as written to w
    console,    \* per request: what it printed on the process console
    ipIn,       \* an input of getClientIP: [xRealIP, xff, remoteAddr]
    ipOut       \* its result: [done, ip]

vars == <<file, newsFile, logs, today, req, resp, console, ipIn, ipOut>>

Absent == [exists |-> FALSE, data |-> <<>>]
Present(c) == [exists |-> TRUE, data |-> c]

Item(n) ==
    [id |-> n, title |-> "title", content |-> "content", image |-> "image.jpg",
     date |-> "date"]

\* The first n entries.
Items(n) == [i \in 1 .. n |-> Item(i)]

\* news.json as loadNews sees it: missing, not readable, not JSON, JSON that
\* is no array of entries, the literal null, or an array of entries.
NewsFiles ==
    {[state |-> s, items |-> <<>>] :
        s \in {"absent", "unreadable", "invalid", "notarray", "null"}}
    \cup {[state |-> "array", items |-> Items(n)] : n \in 0 .. MaxNews}

NoHeaders == [xRealIP |-> <<>>, xff |-> <<>>, remoteAddr |-> <<"1", ":", "9">>]

\* The transport-level addresses (always host:port).
RemoteAddrs == {<<"1", ":", "9">>, <<"[", "1", ":", "1", "]", ":", "9">>}

\* The requests' proxy headers in the server specifications.
HeaderSets ==
    {NoHeaders,
     [xRealIP |-> <<"2">>, xff |-> <<"3", ",", "4">>, remoteAddr |-> <<"1", ":", "9">>]}

FreshReq ==
    [pc |-> "idle", method |-> "", route |-> "", hdr |-> NoHeaders,
     clientIP |-> <<>>, fdOpen |-> FALSE, fdLive |-> FALSE, fdSnap |-> <<>>,
     size |-> 0, hash |-> <<>>, logDate |-> 0, fsOps |-> {}]

FreshResp ==
    [status |-> 0, acao |-> "", acam |-> "", acah |-> "",
     cd |-> "", ct |-> "", cl |-> -1, xfh |-> <<>>,
     text |-> "", data |-> <<>>, json |-> "", items |-> <<>>, versions |-> <<>>]

\* The states in which the server starts: any client files, any news file,
\* an empty log, no request received.
InitEnv(files, news) ==
    /\ file \in [Kinds -> files]
    /\ newsFile \in news
    /\ logs = [d \in Days |-> <<>>]
    /\ today = 0
    /\ req = [r \in AllReqs |-> FreshReq]
    /\ resp = [r \in AllReqs |-> FreshResp]
    /\ console = [r \in AllReqs |-> {}]
    /\ ipOut = [done |-> FALSE, ip |-> <<>>]

(* ----------------------------- responses ------------------------------ *)

\* http.Error(w, text, code) on a response nothing was written to.
HttpError(w, text, code) ==
    [w EXCEPT !.ct = "text/plain; charset=utf-8", !.cl = -1,
              !.status = code, !.text = text]

\* loadNews: os.ReadFile, then json.Unmarshal into []NewsItem.
loadNews ==
    CASE newsFile.state = "absent" -> [news |-> <<>>, isNil |-> TRUE, err |-> "ENOENT"]
      [] newsFile.state = "unreadable" -> [news |-> <<>>, isNil |-> TRUE, err |-> "EACCES"]
      [] newsFile.state = "invalid" -> [news |-> <<>>, isNil |-> TRUE, err |-> "SyntaxError"]
      [] newsFile.state = "notarray" ->
            [news |-> <<>>, isNil |-> TRUE, err |-> "UnmarshalTypeError"]
      [] newsFile.state = "null" -> [news |-> <<>>, isNil |-> TRUE, err |-> "nil"]
      [] OTHER -> [news |-> newsFile.items, isNil |-> FALSE, err |-> "nil"]

\* The bytes the open file of r holds: the path's file while it is linked, the
\* unlinked file's bytes after the path was removed.
FdContent(r) ==
    IF req[r].fdLive THEN file[KindOf(req[r].route)].data ELSE req[r].fdSnap

(* ------------------------ the request wrapper ------------------------- *)

\* The handler a route is registered with starts here.
HandlerEntry(route) ==
    CASE route = RouteNews -> "news"
      [] route = RouteVersion -> "version"
      [] OTHER -> "dl_stat"

Say(r, msg) == [console EXCEPT ![r] = @ \cup {msg}]

\* handleWithCORS without the preflight return: OPTIONS runs the handler too.
HandleWithCORSNoPreflight(r, m, rt, h) ==
    /\ req[r].pc = "idle"
    /\ resp' = [resp EXCEPT ![r] =
                   [@ EXCEPT !.acao = "*", !.acam = "GET, OPTIONS",
                             !.acah = "Content-Type"]]
    /\ req' = [req EXCEPT ![r] =
                  [@ EXCEPT !.pc = HandlerEntry(rt), !.method = m, !.route = rt,
                            !.hdr = h, !.clientIP = getClientIP(h)]]
    /\ console' = Say(r, "request")
    /\ UNCHANGED <<file, newsFile, logs, today, ipIn, ipOut>>

\* A request arrives at a registered route: handleWithCORS up to the call of
\* the handler.  OPTIONS is answered here with a bare 200.
HandleWithCORS(r, m, rt, h) ==
    /\ req[r].pc = "idle"
    /\ LET w == [resp[r] EXCEPT !.acao = "*", !.acam = "GET, OPTIONS",
                                !.acah = "Content-Type"]
       IN  IF m = "OPTIONS"
           THEN /\ resp' = [resp EXCEPT ![r] = [w EXCEPT !.status = 200]]
                /\ req' = [req EXCEPT ![r] =
                              [@ EXCEPT !.pc = "done", !.method = m, !.route = rt,
                                        !.hdr = h]]
                /\ console' = console
           ELSE /\ resp' = [resp EXCEPT ![r] = w]
                /\ req' = [req EXCEPT ![r] =
                              [@ EXCEPT !.pc = HandlerEntry(rt), !.method = m,
                                        !.route = rt, !.hdr = h,
                                        !.clientIP = getClientIP(h)]]
                /\ console' = Say(r, "request")
    /\ UNCHANGED <<file, newsFile, logs, today, ipIn, ipOut>>

\* The handler has returned: its locals are gone, logToFile is next.
Returned(q, ops) ==
    [q EXCEPT !.pc = "log_mkdir", !.fdOpen = FALSE, !.fdLive = FALSE,
              !.fdSnap = <<>>, !.size = 0, !.hash = <<>>,
              !.fsOps = @ \cup ops]

(* ------------------------- news and version --------------------------- *)

\* json.NewEncoder(w).Encode(NewsResponse{News: news}): the first write sends 200.
EncodeNews(w, res) ==
    [w EXCEPT !.status = 200,
              !.json = IF res.isNil THEN "news:null" ELSE "news:array",
              !.items = res.news]

\* newsHandler with loadNews's error dropped: whatever was decoded is sent.
NewsHandlerIgnoringError(r) ==
    /\ req[r].pc = "news"
    /\ resp' = [resp EXCEPT ![r] = EncodeNews(@, loadNews)]
    /\ console' = Say(r, "success: news sent")
    /\ req' = [req EXCEPT ![r] = Returned(@, {"news"})]
    /\ UNCHANGED <<file, newsFile, logs, today, ipIn, ipOut>>

\* The body of newsHandler.
NewsHandler(r) ==
    /\ req[r].pc = "news"
    /\ LET res == loadNews
       IN  IF res.err # "nil"
           THEN /\ console' = Say(r, "error: news: " \o res.err)
                /\ resp' = [resp EXCEPT ![r] = HttpError(@, "news: " \o res.err, 500)]
           ELSE /\ resp' = [resp EXCEPT ![r] = EncodeNews(@, res)]
                /\ console' = Say(r, "success: news sent")
    /\ req' = [req EXCEPT ![r] = Returned(@, {"news"})]
    /\ UNCHANGED <<file, newsFile, logs, today, ipIn, ipOut>>

\* The body of versionHandler.
VersionHandler(r) ==
    /\ req[r].pc = "version"
    /\ resp' = [resp EXCEPT ![r] =
                   [@ EXCEPT !.status = 200, !.json = "version",
                             !.versions = <<config.LauncherVersion, config.GameVersion>>]]
    /\ console' = Say(r, "success: versions sent")
    /\ req' = [req EXCEPT ![r] = Returned(@, {})]
    /\ UNCHANGED <<file, newsFile, logs, today, ipIn, ipOut>>

(* ------------------------------ download ------------------------------ *)

NotFoundText == "file not found"
OpenErrorText == "file open error"
StatErrorText == "file info error"

\* What os.Stat(filePath) can return: "nil" or an error.  Only ENOENT
\* satisfies os.IsNotExist; a directory that cannot be searched hides whether
\* the file is there.
StatResults(k) == IF file[k].exists THEN {"nil", "EACCES"} ELSE {"ENOENT", "EACCES"}

\* serveFileDownload with the missing file reported as an open failure (500).
ServeStatAsOpenError(r) ==
    /\ req[r].pc = "dl_stat"
    /\ \E err \in StatResults(KindOf(req[r].route)) :
       IF err = "ENOENT"
       THEN /\ console' = Say(r, "error: open: ENOENT")
            /\ resp' = [resp EXCEPT ![r] = HttpError(@, OpenErrorText, 500)]
            /\ req' = [req EXCEPT ![r] = Returned(@, {"client"})]
       ELSE /\ req' = [req EXCEPT ![r] = [@ EXCEPT !.pc = "dl_open",
                                                   !.fsOps = @ \cup {"client"}]]
            /\ UNCHANGED <<resp, console>>
    /\ UNCHANGED <<file, newsFile, logs, today, ipIn, ipOut>>

\* serveFileDownload, the existence check: os.Stat(filePath) and the 404.  Any
\* other result of os.Stat, an error included, goes on to os.Open.
ServeStat(r) ==
    /\ req[r].pc = "dl_stat"
    /\ \E err \in StatResults(KindOf(req[r].route)) :
       IF err = "ENOENT"
       THEN /\ console' = Say(r, "error: file not found")
            /\ resp' = [resp EXCEPT ![r] = HttpError(@, NotFoundText, 404)]
            /\ req' = [req EXCEPT ![r] = Returned(@, {"client"})]
       ELSE /\ req' = [req EXCEPT ![r] = [@ EXCEPT !.pc = "dl_open",
                                                   !.fsOps = @ \cup {"client"}]]
            /\ UNCHANGED <<resp, console>>
    /\ UNCHANGED <<file, newsFile, logs, today, ipIn, ipOut>>

\* What os.Open(filePath) can return: "nil" or an error.
OpenResults(k) == IF file[k].exists THEN {"nil", "EACCES"} ELSE {"ENOENT", "EACCES"}

\* serveFileDownload with a failed os.Open only logged: the handler returns
\* without writing, and the server sends the implicit 200.
ServeOpenSilent(r) ==
    /\ req[r].pc = "dl_open"
    /\ \E err \in OpenResults(KindOf(req[r].route)) :
          IF err # "nil"
          THEN /\ console' = Say(r, "error: open: " \o err)
               /\ resp' = [resp EXCEPT ![r] = [@ EXCEPT !.status = 200]]
               /\ req' = [req EXCEPT ![r] = Returned(@, {"client"})]
          ELSE /\ req' = [req EXCEPT ![r] = [@ EXCEPT !.pc = "dl_fstat",
                                                      !.fdOpen = TRUE, !.fdLive = TRUE]]
               /\ UNCHANGED <<resp, console>>
    /\ UNCHANGED <<file, newsFile, logs, today, ipIn, ipOut>>

\* serveFileDownload, os.Open(filePath) and the 500.
ServeOpen(r) ==
    /\ req[r].pc = "dl_open"
    /\ \E err \in OpenResults(KindOf(req[r].route)) :
          IF err # "nil"
          THEN /\ console' = Say(r, "error: open: " \o err)
               /\ resp' = [resp EXCEPT ![r] = HttpError(@, OpenErrorText, 500)]
               /\ req' = [req EXCEPT ![r] = Returned(@, {"client"})]
          ELSE /\ req' = [req EXCEPT ![r] = [@ EXCEPT !.pc = "dl_fstat",
                                                      !.fdOpen = TRUE, !.fdLive = TRUE]]
               /\ UNCHANGED <<resp, console>>
    /\ UNCHANGED <<file, newsFile, logs, today, ipIn, ipOut>>

\* serveFileDownload, file.Stat() on the open file and the 500.
ServeFileStat(r) ==
    /\ req[r].pc = "dl_fstat"
    /\ \E err \in {"nil", "EIO"} :
          IF err # "nil"
          THEN /\ console' = Say(r, "error: file info: " \o err)
               /\ resp' = [resp EXCEPT ![r] = HttpError(@, StatErrorText, 500)]
               /\ req' = [req EXCEPT ![r] = Returned(@, {})]
          ELSE /\ req' = [req EXCEPT ![r] = [@ EXCEPT !.pc = "dl_hash",
                                                      !.size = Len(FdContent(r))]]
               /\ UNCHANGED <<resp, console>>
    /\ UNCHANGED <<file, newsFile, logs, today, ipIn, ipOut>>

\* calculateFileHash(filePath): the path is opened and read again; the results
\* it can have.
calculateFileHash(k) ==
    IF file[k].exists
    THEN {[hash |-> Digest(file[k].data), err |-> "nil"],
          [hash |-> <<>>, err |-> "EIO"]}
    ELSE {[hash |-> <<>>, err |-> "ENOENT"]}

\* The headers serveFileDownload sets before it copies.
DownloadHeaders(w, path, size, hash) ==
    [w EXCEPT !.cd = "attachment; filename=" \o Base(path),
              !.ct = "application/octet-stream",
              !.cl = size,
              !.xfh = IF hash # <<>> THEN hash ELSE @]

\* serveFileDownload with a failed digest treated as fatal (500, no download).
ServeHashFatal(r) ==
    /\ req[r].pc = "dl_hash"
    /\ \E res \in calculateFileHash(KindOf(req[r].route)) :
          IF res.err # "nil"
          THEN /\ console' = Say(r, "error: hash: " \o res.err)
               /\ resp' = [resp EXCEPT ![r] = HttpError(@, "hash error", 500)]
               /\ req' = [req EXCEPT ![r] = Returned(@, {})]
          ELSE /\ console' = console
               /\ req' = [req EXCEPT ![r] = [@ EXCEPT !.pc = "dl_copy", !.hash = res.hash]]
               /\ resp' = [resp EXCEPT ![r] =
                              DownloadHeaders(@, FilePath(req[r].route), req[r].size,
                                              res.hash)]
    /\ UNCHANGED <<file, newsFile, logs, today, ipIn, ipOut>>

\* serveFileDownload, the digest and the headers: a failed digest is logged
\* and the download goes on without X-File-Hash.
ServeHash(r) ==
    /\ req[r].pc = "dl_hash"
    /\ \E res \in calculateFileHash(KindOf(req[r].route)) :
          /\ console' = IF res.err # "nil"
                        THEN Say(r, "error: hash: " \o res.err)
                        ELSE console
          /\ req' = [req EXCEPT ![r] = [@ EXCEPT !.pc = "dl_copy", !.hash = res.hash]]
          /\ resp' = [resp EXCEPT ![r] =
                         DownloadHeaders(@, FilePath(req[r].route), req[r].size,
                                         res.hash)]
    /\ UNCHANGED <<file, newsFile, logs, today, ipIn, ipOut>>

\* What io.Copy(w, file) can do with the open file's bytes when Content-Length
\* is cl: [sent, err].  Every byte up to the end of the file is sent; or a
\* read or a write fails after any number of bytes; or, the file being longer
\* than the declared length, a buffered write that would exceed it is refused
\* (http.ErrContentLength; the server's sendfile path does not look).
CopyResults(data, cl) ==
    {[sent |-> data, err |-> "nil"]}
    \cup {[sent |-> SubSeq(data, 1, n), err |-> "EIO"] : n \in 0 .. Len(data)}
    \cup IF Len(data) > cl
         THEN {[sent |-> SubSeq(data, 1, n), err |-> "ErrContentLength"] : n \in 0 .. cl}
         ELSE {}

\* serveFileDownload, io.Copy(w, file) and the return.  The status is the 200
\* of the first write, or of the server when the handler returns unwritten.
ServeCopy(r) ==
    /\ req[r].pc = "dl_copy"
    /\ \E res \in CopyResults(FdContent(r), resp[r].cl) :
          /\ resp' = [resp EXCEPT ![r] = [@ EXCEPT !.status = 200, !.data = res.sent]]
          /\ console' = IF res.err # "nil"
                        THEN Say(r, "error: send: " \o res.err)
                        ELSE Say(r, "success: file sent")
    /\ req' = [req EXCEPT ![r] = Returned(@, {})]
    /\ UNCHANGED <<file, newsFile, logs, today, ipIn, ipOut>>

(* ----------------------------- access log ------------------------------ *)

\* The line logToFile formats: [<time>] <ip> <endpoint> - <emoji>, whole or
\* cut short by a failed write.
LogEntry(r, whole) ==
    [time |-> today, ip |-> req[r].clientIP, endpoint |-> req[r].route,
     emoji |-> Emoji(req[r].route), whole |-> whole]

\* A write through a descriptor opened without O_APPEND: at the offset of the
\* open, the start of the file.
WriteAtStart(f, line) == IF f = <<>> THEN <<line>> ELSE <<line>> \o Tail(f)

\* A write through a descriptor opened with O_APPEND: at the end of the file
\* as it is when the write happens.
WriteAppend(f, line) == Append(f, line)

Finished(q) == [q EXCEPT !.pc = "done", !.logDate = 0]

\* logToFile with a failure of os.MkdirAll turned into an error response.
LogMkdirFailing(r) ==
    /\ req[r].pc = "log_mkdir"
    /\ \E err \in {"nil", "EACCES"} :
          IF err # "nil"
          THEN /\ console' = Say(r, "error: log directory")
               /\ req' = [req EXCEPT ![r] = Finished([@ EXCEPT !.fsOps = @ \cup {"log"}])]
               /\ resp' = [resp EXCEPT ![r] = [@ EXCEPT !.text = "log error"]]
          ELSE /\ req' = [req EXCEPT ![r] = [@ EXCEPT !.pc = "log_open",
                                                      !.logDate = today,
                                                      !.fsOps = @ \cup {"log"}]]
               /\ UNCHANGED <<console, resp>>
    /\ UNCHANGED <<file, newsFile, logs, today, ipIn, ipOut>>

\* logToFile, the day of the file name and os.MkdirAll("logs").
LogMkdir(r) ==
    /\ req[r].pc = "log_mkdir"
    /\ \E err \in {"nil", "EACCES"} :
          IF err # "nil"
          THEN /\ console' = Say(r, "error: log directory")
               /\ req' = [req EXCEPT ![r] = Finished([@ EXCEPT !.fsOps = @ \cup {"log"}])]
          ELSE /\ req' = [req EXCEPT ![r] = [@ EXCEPT !.pc = "log_open",
                                                      !.logDate = today,
                                                      !.fsOps = @ \cup {"log"}]]
               /\ console' = console
    /\ UNCHANGED <<file, newsFile, logs, today, resp, ipIn, ipOut>>

\* logToFile with the file opened as os.Create does (O_TRUNC): the lines
\* written so far are dropped.
LogOpenTruncating(r) ==
    /\ req[r].pc = "log_open"
    /\ \E err \in {"nil", "EACCES"} :
          IF err # "nil"
          THEN /\ console' = Say(r, "error: log open")
               /\ req' = [req EXCEPT ![r] = Finished(@)]
               /\ logs' = logs
          ELSE /\ req' = [req EXCEPT ![r] = [@ EXCEPT !.pc = "log_write"]]
               /\ console' = console
               /\ logs' = [logs EXCEPT ![req[r].logDate] = <<>>]
    /\ UNCHANGED <<file, newsFile, today, resp, ipIn, ipOut>>

\* logToFile, os.OpenFile(logFile, O_APPEND|O_CREATE|O_WRONLY).
LogOpen(r) ==
    /\ req[r].pc = "log_open"
    /\ \E err \in {"nil", "EACCES"} :
          IF err # "nil"
          THEN /\ console' = Say(r, "error: log open")
               /\ req' = [req EXCEPT ![r] = Finished(@)]
          ELSE /\ req' = [req EXCEPT ![r] = [@ EXCEPT !.pc = "log_write"]]
               /\ console' = console
    /\ UNCHANGED <<file, newsFile, logs, today, resp, ipIn, ipOut>>

\* logToFile, the one file.WriteString(logEntry) and the close.  A failed
\* write leaves nothing or the start of the line in the file.
LogWrite(r) ==
    /\ req[r].pc = "log_write"
    /\ \E err \in {"nil", "ENOSPC"}, part \in BOOLEAN :
          /\ err = "nil" => part
          /\ logs' = IF err = "nil"
                     THEN [logs EXCEPT ![req[r].logDate] = WriteAppend(@, LogEntry(r, TRUE))]
                     ELSE IF part
                     THEN [logs EXCEPT ![req[r].logDate] = WriteAppend(@, LogEntry(r, FALSE))]
                     ELSE logs
          /\ console' = IF err # "nil" THEN Say(r, "error: log write") ELSE console
    /\ req' = [req EXCEPT ![r] = Finished(@)]
    /\ UNCHANGED <<file, newsFile, today, resp, ipIn, ipOut>>

(* ----------------------------- environment ----------------------------- *)

\* The client file of kind k is removed; a request that has it open keeps
\* reading the removed file.
EnvRemove(k) ==
    /\ file[k].exists
    /\ file' = [file EXCEPT ![k] = Absent]
    /\ req' = [r \in AllReqs |->
                  IF req[r].fdOpen /\ req[r].fdLive /\ KindOf(req[r].route) = k
                  THEN [req[r] EXCEPT !.fdLive = FALSE, !.fdSnap = file[k].data]
                  ELSE req[r]]
    /\ UNCHANGED <<newsFile, logs, today, resp, console, ipIn, ipOut>>

\* The client file of kind k is written in place (or created) with bytes c.
EnvWrite(k, c) ==
    /\ file[k] # Present(c)
    /\ file' = [file EXCEPT ![k] = Present(c)]
    /\ UNCHANGED <<newsFile, logs, today, req, resp, console, ipIn, ipOut>>

\* news.json is edited, removed or made unreadable.
EnvNews(n) ==
    /\ newsFile # n
    /\ newsFile' = n
    /\ UNCHANGED <<file, logs, today, req, resp, console, ipIn, ipOut>>

\* Midnight.
Tick ==
    /\ today < MaxDay
    /\ today' = today + 1
    /\ UNCHANGED <<file, newsFile, logs, req, resp, console, ipIn, ipOut>>

(* ------------------------- client-IP resolution ------------------------ *)

HdrChars == {"1", ",", " "}

\* Header values as net/http hands them over: without outer whitespace.
HdrValues ==
    {s \in SeqsUpTo(HdrChars, MaxHdrLen) : s = <<>> \/ (s[1] # " " /\ s[Len(s)] # " ")}

\* getClientIP is applied to the request at hand.
ResolveIP ==
    /\ ~ipOut.done
    /\ ipOut' = [done |-> TRUE, ip |-> getClientIP(ipIn)]
    /\ UNCHANGED <<file, newsFile, logs, today, req, resp, console, ipIn>>

(* ---------------------------- specifications --------------------------- *)

AllFiles == {Absent} \cup {Present(c) : c \in Contents}

\* Each request runs handleWithCORS, its handler and logToFile; the steps of
\* one request after the other.
Handle(r) ==
    \/ NewsHandler(r)
    \/ VersionHandler(r)
    \/ ServeStat(r)
    \/ ServeOpen(r)
    \/ ServeFileStat(r)
    \/ ServeHash(r)
    \/ ServeCopy(r)
    \/ LogMkdir(r)
    \/ LogOpen(r)
    \/ LogWrite(r)

\* The server under concurrent requests to every route, with a filesystem
\* that does not change under it: the launcher is deployed, the game client
\* is not, news.json is there or not.
InitServer ==
    /\ ipIn = NoHeaders
    /\ InitEnv({Absent, Present(<<0, 1>>)},
               {[state |-> "absent", items |-> <<>>], [state |-> "array", items |-> Items(1)]})
    /\ file["launcher"].exists
    /\ ~file["game"].exists

NextServer ==
    \/ Tick
    \/ \E r \in Reqs :
          \/ \E m \in Methods, rt \in Routes, h \in HeaderSets : HandleWithCORS(r, m, rt, h)
          \/ Handle(r)

SpecServer == InitServer /\ [][NextServer]_vars

\* Downloads while the client files are written and removed.
InitDownload ==
    /\ ipIn = NoHeaders
    /\ InitEnv(AllFiles, {[state |-> "array", items |-> Items(1)]})

NextDownload ==
    \/ \E k \in Kinds : EnvRemove(k)
    \/ \E k \in Kinds, c \in Contents : EnvWrite(k, c)
    \/ \E r \in DlReqs :
          \/ \E m \in Methods, rt \in DownloadRoutes : HandleWithCORS(r, m, rt, NoHeaders)
          \/ ServeStat(r)
          \/ ServeOpen(r)
          \/ ServeFileStat(r)
          \/ ServeHash(r)
          \/ ServeCopy(r)
          \/ LogMkdir(r)
          \/ LogOpen(r)
          \/ LogWrite(r)

SpecDownload == InitDownload /\ [][NextDownload]_vars

\* The news feed while news.json is edited.
InitNews ==
    /\ ipIn = NoHeaders
    /\ InitEnv({Absent}, NewsFiles)

NextNews ==
    \/ \E n \in NewsFiles : EnvNews(n)
    \/ \E r \in NewsReqs :
          \/ \E m \in Methods : HandleWithCORS(r, m, RouteNews, NoHeaders)
          \/ NewsHandler(r)
          \/ LogMkdir(r)
          \/ LogOpen(r)
          \/ LogWrite(r)

SpecNews == InitNews /\ [][NextNews]_vars

\* getClientIP on every combination of the three inputs.
InitClientIP ==
    /\ InitEnv({Absent}, {[state |-> "absent", items |-> <<>>]})
    /\ ipIn \in [xRealIP : HdrValues, xff : HdrValues, remoteAddr : RemoteAddrs]

NextClientIP == ResolveIP

SpecClientIP == InitClientIP /\ [][NextClientIP]_vars

(* ------------------------------- claims -------------------------------- *)

LogPcs == {"log_mkdir", "log_open", "log_write"}
ReturnedPcs == LogPcs \cup {"done"}
LogErrors == {"error: log directory", "error: log open", "error: log write"}
HashErrors == {"error: hash: EIO", "error: hash: ENOENT"}
OpenErrors == {"error: open: ENOENT", "error: open: EACCES"}
SendErrors == {"error: send: EIO", "error: send: ErrContentLength"}

BodyEmpty(w) == w.text = "" /\ w.data = <<>> /\ w.json = ""
CorsHeaders(w) ==
    w.acao = "*" /\ w.acam = "GET, OPTIONS" /\ w.acah = "Content-Type"
NoDownloadHeaders(w) == w.cd = "" /\ w.cl = -1 /\ w.xfh = <<>>

WholeLines(f) == Len(SelectSeq(f, LAMBDA l : l.whole))

RECURSIVE SumWhole(_, _)
SumWhole(l, d) == IF d < 0 THEN 0 ELSE WholeLines(l[d]) + SumWhole(l, d - 1)

\* The complete lines in all the daily logs.
TotalWhole(l) == SumWhole(l, MaxDay)

\* C1: a download whose file exists and that the server reports as sent
\* carries a Content-Length equal to the length of the body sent and an
\* X-File-Hash equal to the digest of the body sent (both follow from body,
\* size and digest being those of the one file on disk).
C1_BodyMatchesHeaders ==
    \A r \in DlReqs :
        (/\ req[r].pc \in ReturnedPcs
         /\ "success: file sent" \in console[r]
         /\ resp[r].xfh # <<>>)
        => /\ resp[r].cl = Len(resp[r].data)
           /\ resp[r].xfh = Digest(resp[r].data)

\* C2 as stated: whenever the file is absent when the handler uses it, at
\* os.Stat or at os.Open, the answer is 404 without file bytes or download
\* headers.
C2_AbsentAlways404 ==
    [][\A r \in DlReqs :
          (/\ req[r].pc \in {"dl_stat", "dl_open"}
           /\ req'[r].pc # req[r].pc
           /\ ~file[KindOf(req[r].route)].exists)
          => /\ resp'[r].status = 404
             /\ resp'[r].data = <<>>
             /\ NoDownloadHeaders(resp'[r])]_vars

\* C2 amended: a file that os.Stat reports missing is answered 404; a file
\* that is absent when os.Open is reached (it disappeared after os.Stat, or
\* os.Stat failed otherwise) is answered 500; in both cases no file bytes and
\* no download headers are written and the handler returns.
C2_Absent404Or500 ==
    [][\A r \in DlReqs :
          (/\ req[r].pc \in {"dl_stat", "dl_open"}
           /\ req'[r].pc # req[r].pc
           /\ ~file[KindOf(req[r].route)].exists)
          => \/ /\ req[r].pc = "dl_stat"
                /\ req'[r].pc = "dl_open"
                /\ resp'[r] = resp[r]
             \/ /\ resp'[r].status = IF req[r].pc = "dl_stat" THEN 404 ELSE 500
                /\ resp'[r].data = <<>>
                /\ resp'[r].text # ""
                /\ NoDownloadHeaders(resp'[r])
                /\ req'[r].pc = "log_mkdir"]_vars

\* The file disappeared between os.Stat and os.Open and the request was answered.
C2_Witness ==
    \E r \in DlReqs :
        /\ req[r].pc = "done"
        /\ "error: open: ENOENT" \in console[r]
        /\ resp[r].status = 500
        /\ ~file[KindOf(req[r].route)].exists

\* C3: an OPTIONS request is answered at once with 200, an empty body and the
\* three CORS headers; it reads, creates and writes no file and prints nothing.
C3_OptionsShortCircuit ==
    \A r \in Reqs :
        req[r].method = "OPTIONS"
        => /\ req[r].pc = "done"
           /\ resp[r].status = 200
           /\ BodyEmpty(resp[r])
           /\ CorsHeaders(resp[r])
           /\ NoDownloadHeaders(resp[r])
           /\ req[r].fsOps = {}
           /\ console[r] = {}

\* An OPTIONS request was answered while another request wrote its log line.
C3_Witness ==
    \E r, q \in Reqs :
        /\ req[r].method = "OPTIONS"
        /\ req[r].pc = "done"
        /\ req[q].method = "GET"
        /\ req[q].pc = "done"
        /\ TotalWhole(logs) = 1

\* The requests that finish in this step, not OPTIONS, with no logging failure.
FinishLogged ==
    {r \in Reqs : /\ req[r].pc # "done"
                  /\ req'[r].pc = "done"
                  /\ req'[r].method # "OPTIONS"
                  /\ console'[r] \cap LogErrors = {}}

\* C4: a non-OPTIONS request whose logging does not fail appends exactly one
\* line, to the log of the day logToFile started on, after its handler has
\* written the response; no step changes or removes a line; so the complete
\* lines number the finished non-OPTIONS requests whose logging did not fail.
C4_OneLinePerRequest ==
    /\ [](TotalWhole(logs) =
            Cardinality({r \in Reqs : /\ req[r].pc = "done"
                                      /\ req[r].method # "OPTIONS"
                                      /\ console[r] \cap LogErrors = {}}))
    /\ [][/\ \A d \in Days : IsPrefix(logs[d], logs'[d])
          /\ TotalWhole(logs') = TotalWhole(logs) + Cardinality(FinishLogged)
          /\ \A r \in FinishLogged :
                /\ req[r].pc = "log_write"
                /\ resp[r].status # 0
                /\ resp'[r] = resp[r]
                /\ logs' = [logs EXCEPT ![req[r].logDate] =
                               Append(@, LogEntry(r, TRUE))]]_vars

\* Two requests are logged, one answered 200 and one answered with an error.
C4_Witness ==
    \E r, q \in Reqs :
        /\ req[r].pc = "done" /\ req[q].pc = "done"
        /\ resp[r].status = 200 /\ req[r].method = "GET"
        /\ resp[q].status \in {404, 500}
        /\ console[r] \cap LogErrors = {} /\ console[q] \cap LogErrors = {}
        /\ TotalWhole(logs) = 2

\* C5: no step of logToFile, failed or not, changes the response or another
\* request; a failure is printed on the console and the request ends as any
\* other.
C5_LoggingBestEffort ==
    [][\A r \in Reqs :
          (req[r].pc \in LogPcs /\ req'[r] # req[r])
          => /\ resp' = resp
             /\ req'[r].pc \in LogPcs \cup {"done"}
             /\ \A q \in Reqs \ {r} : req'[q] = req[q]
             /\ (console'[r] \cap LogErrors # {} => req'[r].pc = "done")
             /\ (console'[r] # console[r] => console'[r] \ console[r] \subseteq LogErrors)]_vars

\* A request answered 200 whose logging failed.
C5_Witness ==
    \E r \in Reqs :
        /\ req[r].pc = "done"
        /\ console[r] \cap LogErrors # {}
        /\ resp[r].status = 200
        /\ resp[r].data # <<>>

\* C6: when the digest fails the handler goes on: it sets Content-Disposition,
\* Content-Type and Content-Length and no X-File-Hash, and if the copy then
\* succeeds the response is 200 with every byte of the open file.  X-File-Hash
\* is set only to a digest that was computed.
C6_HashFailureNonFatal ==
    [][\A r \in DlReqs :
          /\ (req[r].pc = "dl_hash" /\ req'[r].pc # "dl_hash"
              /\ console'[r] \cap HashErrors # {})
             => /\ req'[r].pc = "dl_copy"
                /\ resp'[r].status = 0
                /\ resp'[r].cd = "attachment; filename=" \o Base(FilePath(req[r].route))
                /\ resp'[r].ct = "application/octet-stream"
                /\ resp'[r].cl = req[r].size
                /\ resp'[r].xfh = <<>>
          /\ (req[r].pc = "dl_copy" /\ req'[r].pc # "dl_copy"
              /\ console[r] \cap HashErrors # {}
              /\ "success: file sent" \in console'[r])
             => /\ resp'[r] = [resp[r] EXCEPT !.status = 200, !.data = FdContent(r)]
                /\ resp'[r].xfh = <<>>
          /\ resp'[r].xfh # <<>>
             => /\ console'[r] \cap HashErrors = {}
                /\ \E c \in Contents : resp'[r].xfh = Digest(c)]_vars

\* The digest failed and the whole file was sent all the same.
C6_Witness ==
    \E r \in DlReqs :
        /\ req[r].pc = "done"
        /\ console[r] \cap HashErrors # {}
        /\ "success: file sent" \in console[r]
        /\ resp[r].status = 200
        /\ Len(resp[r].data) = MaxFileLen
        /\ resp[r].cl = MaxFileLen
        /\ resp[r].xfh = <<>>

\* C7 as stated: a failed open and a failed copy both end in status 500.
C7_IoFailures500 ==
    \A r \in DlReqs :
        (req[r].pc \in ReturnedPcs /\ console[r] \cap (OpenErrors \cup SendErrors) # {})
        => resp[r].status = 500

\* C7 amended: a failed os.Open (and a failed file.Stat) ends in status 500
\* with no file bytes and no download headers; a failed copy is only printed:
\* the response keeps the status 200 and the download headers already set.
C7_OpenFailure500CopyFailure200 ==
    \A r \in DlReqs :
        req[r].pc \in ReturnedPcs
        => /\ (console[r] \cap (OpenErrors \cup {"error: file info: EIO"}) # {}
               => /\ resp[r].status = 500
                  /\ resp[r].data = <<>>
                  /\ NoDownloadHeaders(resp[r]))
           /\ (console[r] \cap SendErrors # {}
               => /\ resp[r].status = 200
                  /\ resp[r].cd # ""
                  /\ resp[r].cl >= 0
                  /\ resp[r].text = "")

\* The copy failed part-way and the request was answered 200.
C7_Witness ==
    \E r \in DlReqs :
        /\ req[r].pc = "done"
        /\ "error: send: EIO" \in console[r]
        /\ resp[r].status = 200
        /\ Len(resp[r].data) < resp[r].cl

\* C8: each GET of /api/news reads news.json as it is then: missing,
\* unreadable, not JSON or not a list of entries gives 500 without a news
\* payload and the request goes on to its log line; otherwise 200 with the
\* file's entries (the literal null, the encoding of an empty Go slice, gives
\* 200 with no entries).
C8_NewsReadEveryRequest ==
    [][\A r \in NewsReqs :
          (req[r].pc = "news" /\ req'[r].pc # "news")
          => /\ req'[r].pc = "log_mkdir"
             /\ IF newsFile.state \in {"absent", "unreadable", "invalid", "notarray"}
                THEN /\ resp'[r].status = 500
                     /\ resp'[r].json = ""
                     /\ resp'[r].items = <<>>
                     /\ resp'[r].text # ""
                ELSE /\ resp'[r].status = 200
                     /\ resp'[r].json # ""
                     /\ resp'[r].items = newsFile.items
                     /\ resp'[r].text = ""]_vars

\* One request got 500, and another, the file now being in place, its entries.
C8_Witness ==
    \E r, q \in NewsReqs :
        /\ req[r].pc = "done" /\ resp[r].status = 500
        /\ req[q].pc = "done" /\ resp[q].status = 200
        /\ Len(resp[q].items) = MaxNews
        /\ newsFile.state = "array"

(* The reference of C9, stated without the operators getClientIP uses. *)

Spaces(s) == \A i \in 1 .. Len(s) : s[i] = " "

\* The part of x before its first comma.
RefFirstEntry(x) ==
    CHOOSE p \in {SubSeq(x, 1, n) : n \in 0 .. Len(x)} :
        /\ \A i \in 1 .. Len(p) : p[i] # ","
        /\ Len(p) = Len(x) \/ x[Len(p) + 1] = ","

\* e without its outer spaces.
RefTrim(e) ==
    CHOOSE t \in {SubSeq(e, i, j) : i \in 1 .. Len(e) + 1, j \in 0 .. Len(e)} :
        /\ t = <<>> \/ (t[1] # " " /\ t[Len(t)] # " ")
        /\ \E i \in 1 .. Len(e) + 1, j \in 0 .. Len(e) :
              /\ t = SubSeq(e, i, j)
              /\ Spaces(SubSeq(e, 1, i - 1))
              /\ Spaces(SubSeq(e, j + 1, Len(e)))

\* The host of host:port or [host]:port.
RefHost(a) ==
    IF a[1] = "["
    THEN SubSeq(a, 2, (CHOOSE i \in 1 .. Len(a) : a[i] = "]") - 1)
    ELSE SubSeq(a, 1, (CHOOSE i \in 1 .. Len(a) : a[i] = ":") - 1)

\* C9 as stated: X-Real-IP if non-empty; otherwise the trimmed first entry of
\* X-Forwarded-For if that header is non-empty; otherwise the remote host.
C9_PrecedenceByHeader ==
    ipOut.done
    => ipOut.ip = IF ipIn.xRealIP # <<>> THEN ipIn.xRealIP
                  ELSE IF ipIn.xff # <<>> THEN RefTrim(RefFirstEntry(ipIn.xff))
                  ELSE RefHost(ipIn.remoteAddr)

\* C9 amended: X-Real-IP if non-empty; otherwise the trimmed first entry of
\* X-Forwarded-For if that entry is non-empty; otherwise the remote host.
C9_PrecedenceByEntry ==
    ipOut.done
    => ipOut.ip = IF ipIn.xRealIP # <<>> THEN ipIn.xRealIP
                  ELSE IF RefTrim(RefFirstEntry(ipIn.xff)) # <<>>
                  THEN RefTrim(RefFirstEntry(ipIn.xff))
                  ELSE RefHost(ipIn.remoteAddr)

\* X-Forwarded-For is set, its first entry is empty, the remote host is taken.
C9_Witness ==
    /\ ipOut.done
    /\ ipIn.xRealIP = <<>>
    /\ ipIn.xff # <<>>
    /\ RefTrim(RefFirstEntry(ipIn.xff)) = <<>>
    /\ ipOut.ip = <<"1", ":", "1">>

LineKey(l) == <<l.ip, l.endpoint, l.emoji>>
ReqKey(r) == <<req[r].clientIP, req[r].route, Emoji(req[r].route)>>

\* C10: whatever the interleaving, the complete lines in the logs are, line
\* for line, those of the finished non-OPTIONS requests whose logging did not
\* fail: none lost, none overwritten, none mixed with another.
C10_NoLostOrMixedLines ==
    \A key \in {ReqKey(r) : r \in Reqs} \cup
               UNION {{LineKey(logs[d][i]) : i \in 1 .. Len(logs[d])} : d \in Days} :
        Cardinality(UNION {{<<d, i>> : i \in {j \in 1 .. Len(logs[d]) :
                                                /\ logs[d][j].whole
                                                /\ LineKey(logs[d][j]) = key}} :
                           d \in Days})
        = Cardinality({r \in Reqs : /\ req[r].pc = "done"
                                    /\ req[r].method # "OPTIONS"
                                    /\ console[r] \cap LogErrors = {}
                                    /\ ReqKey(r) = key})

\* One request has written its line while another holds the same day's log
\* open for its own write.
C10_Witness ==
    \E r, q \in Reqs :
        /\ r # q
        /\ req[r].pc = "done" /\ req[r].method = "GET"
        /\ console[r] \cap LogErrors = {}
        /\ req[q].pc = "log_write"
        /\ Len(logs[req[q].logDate]) = 1
        /\ logs[req[q].logDate][1].whole

====
